---- MODULE Spec2Model ----
(***************************************************************************)
(* Model of src/components/WeatherDisplay.tsx: a React function component  *)
(* that fetches weather data when its configuration enables it, refetches  *)
(* on a 10-minute interval timer, and renders one of three pills plus a    *)
(* hover tooltip.                                                          *)
(*                                                                         *)
(* Text is modelled as a sequence of characters.  The non-ASCII literals   *)
(* of the source are written as named characters / ASCII strings:          *)
(*   MIDDOT  = U+00B7 (middle dot)       FWBAR = U+FF5C (fullwidth bar)    *)
(*   "weather unavailable"   = the pill text at line 118                   *)
(*   "loading weather..."    = the pill text at line 109                   *)
(*   "unknown city"          = the literal at line 143                     *)
(*   "unknown location"      = the literal at line 174                     *)
(*   "unknown"               = the literal at lines 126/132                *)
(*   "fetch failed"          = the literal at line 86                      *)
(*   "fetch data failed"     = the literal at line 82                      *)
(***************************************************************************)
EXTENDS Naturals, Integers, Sequences, FiniteSets, TLC

VARIABLES
    phase,        \* lifecycle of the component instance: "new", "mounted", "unmounted"
    config,       \* the config prop (NoConfig or a config object)
    weatherData,  \* useState, line 34
    loading,      \* useState, line 35
    error,        \* useState, line 36
    isHovering,   \* useState, line 37
    timers,       \* handles of the active interval timers (setInterval, line 95)
    interval,     \* the handle captured by the pending effect cleanup (line 97), or Null
    inflight,     \* number of fetch() calls (line 70) whose response is still awaited
    pointerOver,  \* whether the pointer is inside the pill's box
    unhandled,    \* whether a rejection escaped fetchWeather
    event,        \* the handler that ran in the last step
    fetchStarted, \* whether the last step called fetch() (line 70)
    lastOutcome,  \* the response settled by the last "resolve" step, or Null
    lastStart     \* how the last fetchWeather call came about (line 92 or 95)

vars == <<phase, config, weatherData, loading, error, isHovering, timers,
          interval, inflight, pointerOver, unhandled, event, fetchStarted,
          lastOutcome, lastStart>>

-----------------------------------------------------------------------------
(* Bounds *)

\* number of distinct config objects the host may pass (object identity)
NumConfigObjects == 2
\* maximal number of fetches awaiting their response at the same time
MaxInflight == 2

-----------------------------------------------------------------------------
(* Values *)

\* null, for the record-valued state (weatherData, error, lastOutcome)
Null == [null |-> TRUE]
\* the config prop when the host passes none (undefined)
NoConfig == [absent |-> TRUE]
\* the value of `interval` when the last effect run returned no cleanup
NoCleanup == 0

\* characters of the location texts
MIDDOT == "MIDDOT"
BAR == "|"
FWBAR == "FWBAR"

\* the literals of the source
CatchMessage == "fetch failed"
DefaultMessage == "fetch data failed"
LoadingText == "loading weather..."
UnavailableText == "weather unavailable"
UnknownCity == <<"unknown city">>
UnknownLocation == <<"unknown location">>

\* a JSON object is a record that has exactly the keys that are present
Has(o, k) == k \in DOMAIN o
\* obj.k is truthy, for a text field (a sequence of characters)
TruthyText(o, k) == Has(o, k) /\ o[k] # <<>>
\* obj.k is truthy, for a string field
TruthyString(o, k) == Has(o, k) /\ o[k] # ""

Configs == {NoConfig} \cup [id : 1..NumConfigObjects, enabled : BOOLEAN]

-----------------------------------------------------------------------------
(* Responses of the remote endpoint *)

\* response.json() rejects (the body is not JSON)
BadJson == [badjson |-> TRUE]

BodyFull ==
    [status |-> "success", message |-> "",
     data |-> [weatherData |-> [temperature |-> 20, region |-> <<"A", BAR, "B">>],
               region |-> <<"B">>]]
BodyCity ==
    [status |-> "success", message |-> "",
     data |-> [city |-> <<"X">>, province |-> <<"Y">>]]
BodyNoData == [status |-> "success"]
BodyFailMessage == [status |-> "error", message |-> "server busy"]
BodyFailEmpty == [status |-> "error", message |-> ""]

Bodies == {BodyFull, BodyCity, BodyNoData, BodyFailMessage, BodyFailEmpty,
           BadJson, Null}

Outcomes ==
    {[kind |-> "reject"]}
      \cup {[kind |-> "response", status |-> 500, body |-> BodyFailMessage]}
      \cup {[kind |-> "response", status |-> 200, body |-> b] : b \in Bodies}

-----------------------------------------------------------------------------
(* fetchWeather, lines 64-90 *)

\* response.ok
ResponseOk(status) == status \in 200..299

\* the try block, lines 68-83: does it throw for this outcome
Throws(o) ==
    \/ o.kind = "reject"                        \* fetch() rejects, line 70
    \/ /\ o.kind = "response"
       /\ \/ ~ResponseOk(o.status)              \* line 72-74
          \/ o.body = BadJson                   \* response.json() rejects, line 76
          \/ o.body = Null                      \* data.status of null, line 79

\* the catch clause of line 84 has no condition: it catches every throw
Catches(o) == TRUE

\* line 79
IsSuccess(o) == ~Throws(o) /\ Has(o.body, "status") /\ o.body.status = "success"

\* fault: the default of line 82 is dropped
ErrorMessage_NoDefault(body) ==
    IF Has(body, "message") THEN body.message ELSE ""

\* line 82: data.message || default
ErrorMessage(body) ==
    IF TruthyString(body, "message") THEN body.message ELSE DefaultMessage

\* fault: the payload is merged into the previous snapshot
StoredSnapshot_Merge(old, body) ==
    IF old = Null THEN body
    ELSE [k \in DOMAIN old \cup DOMAIN body |->
             IF k \in DOMAIN body THEN body[k] ELSE old[k]]

\* line 80: setWeatherData(data) stores the received payload
StoredSnapshot(old, body) == body

\* the value of weatherData after the response settled
SettledData(o, w) == IF IsSuccess(o) THEN StoredSnapshot(w, o.body) ELSE w

\* the value of error after the response settled (lines 82, 86)
SettledError(o, e) ==
    IF Throws(o)
    THEN IF Catches(o) THEN [msg |-> CatchMessage] ELSE e
    ELSE IF IsSuccess(o) THEN e ELSE [msg |-> ErrorMessage(o.body)]

\* fault: loading is cleared on the success path only, not in a finally
SettledLoading_OnSuccessOnly(o, l) == IF IsSuccess(o) THEN FALSE ELSE l

\* the value of loading after the response settled (finally, line 88)
SettledLoading(o, l) == FALSE

-----------------------------------------------------------------------------
(* The effect, lines 59-98 *)

\* fault: the guard of line 60 is missing
useEffectBody_IgnoresEnabled(c) == [fetch |-> TRUE, timer |-> TRUE]

\* fault: the call of line 92 is missing
useEffectBody_NoImmediateFetch(c) ==
    IF c = NoConfig \/ ~c.enabled
    THEN [fetch |-> FALSE, timer |-> FALSE]
    ELSE [fetch |-> FALSE, timer |-> TRUE]

\* fault: the setInterval call of line 95 is missing
useEffectBody_NoTimer(c) ==
    IF c = NoConfig \/ ~c.enabled
    THEN [fetch |-> FALSE, timer |-> FALSE]
    ELSE [fetch |-> TRUE, timer |-> FALSE]

\* what one run of the effect body does for the config it sees
useEffectBody(c) ==
    IF c = NoConfig \/ ~c.enabled
    THEN [fetch |-> FALSE, timer |-> FALSE]     \* line 60-62
    ELSE [fetch |-> TRUE, timer |-> TRUE]       \* lines 92, 95

\* fault: the timer is not cancelled
clearInterval_NoOp(ts, h) == ts

\* line 97
clearInterval(ts, h) == ts \ {h}

\* setInterval returns a handle different from every active one and from
\* the one that was just cleared (handles are not reused)
NewHandle(ts) ==
    CHOOSE h \in 1..(Cardinality(ts \cup {interval}) + 1) : h \notin ts \cup {interval}

-----------------------------------------------------------------------------
(* Rendering, lines 100-204 *)

\* fault: the g flag of the pattern of line 170 is missing
ReplaceBars_FirstOnly(t) ==
    LET bars == {i \in 1..Len(t) : t[i] \in {BAR, FWBAR}}
    IN  [i \in 1..Len(t) |->
            IF i \in bars /\ \A j \in bars : i <= j THEN MIDDOT ELSE t[i]]

\* String.prototype.replace(/[|FWBAR]/g, MIDDOT), line 170
ReplaceBars(t) ==
    [i \in 1..Len(t) |-> IF t[i] \in {BAR, FWBAR} THEN MIDDOT ELSE t[i]]

\* Array.prototype.filter(Boolean) on [province, city], line 165
TruthyParts(data) ==
    (IF TruthyText(data, "province") THEN <<data.province>> ELSE <<>>)
      \o (IF TruthyText(data, "city") THEN <<data.city>> ELSE <<>>)

\* Array.prototype.join(sep)
RECURSIVE Join(_, _)
Join(parts, sep) ==
    IF Len(parts) = 0 THEN <<>>
    ELSE IF Len(parts) = 1 THEN parts[1]
    ELSE parts[1] \o sep \o Join(Tail(parts), sep)

\* fault: the top-level region is tried before weatherData.region
LocationInfo_TopLevelRegionFirst(data) ==
    IF TruthyText(data, "region") THEN <<data.region>>
    ELSE IF Has(data, "weatherData") /\ TruthyText(data.weatherData, "region")
    THEN <<data.weatherData.region>>
    ELSE IF TruthyText(data, "location") THEN <<data.location>>
    ELSE IF TruthyText(data, "city") \/ TruthyText(data, "province")
    THEN <<Join(TruthyParts(data), <<MIDDOT>>)>>
    ELSE <<>>

\* lines 149-166: locationInfo, <<>> for null and <<text>> otherwise
LocationInfo(data) ==
    IF Has(data, "weatherData") /\ TruthyText(data.weatherData, "region")
    THEN <<data.weatherData.region>>
    ELSE IF TruthyText(data, "region") THEN <<data.region>>
    ELSE IF TruthyText(data, "location") THEN <<data.location>>
    ELSE IF TruthyText(data, "city") \/ TruthyText(data, "province")
    THEN <<Join(TruthyParts(data), <<MIDDOT>>)>>
    ELSE <<>>

\* lines 141-175
getCityInfo(w) ==
    IF w = Null \/ ~Has(w, "data")
    THEN UnknownCity
    ELSE LET locationInfo == LocationInfo(w.data)
         IN  IF locationInfo # <<>> /\ locationInfo[1] # <<>>
             THEN ReplaceBars(locationInfo[1])
             ELSE UnknownLocation

\* `error` is truthy, line 114
TruthyError(e) == e # Null /\ e.msg # ""

\* fault: the error test of line 114 comes before the loading test of line 105
Pill_ErrorBeforeLoading(c, l, e, w) ==
    IF c = NoConfig \/ ~c.enabled THEN "none"
    ELSE IF TruthyError(e) \/ w = Null THEN "unavailable"
    ELSE IF l THEN "loading"
    ELSE "success"

\* which of the returns of lines 100-204 the render takes
Pill(c, l, e, w) ==
    IF c = NoConfig \/ ~c.enabled THEN "none"          \* line 101-103
    ELSE IF l THEN "loading"                            \* line 105-112
    ELSE IF TruthyError(e) \/ w = Null THEN "unavailable"  \* line 114-121
    ELSE "success"                                      \* line 177-204

\* the tooltip of lines 192-202: <<>> when not rendered, <<text>> otherwise
Tooltip(pill, h, w) ==
    IF pill = "success" /\ h THEN <<getCityInfo(w)>> ELSE <<>>

\* the pointer handlers are attached to the success pill only, lines 180-181
HasHoverHandlers(pill) == pill = "success"

\* fault: the leave handler does not clear the flag
onMouseLeave_Stuck == TRUE

\* lines 180 and 181
onMouseEnter == TRUE
onMouseLeave == FALSE

\* what is on screen: nothing before mount and after unmount
View ==
    IF phase # "mounted"
    THEN [pill |-> "none", tooltip |-> <<>>]
    ELSE LET pill == Pill(config, loading, error, weatherData)
         IN  [pill |-> pill, tooltip |-> Tooltip(pill, isHovering, weatherData)]

ViewText ==
    IF View.pill = "loading" THEN LoadingText
    ELSE IF View.pill = "unavailable" THEN UnavailableText
    ELSE ""

-----------------------------------------------------------------------------
(* The icon classifier and the displayed fields, lines 40-56 and 124-138 *)

\* the CJK keywords of lines 43-51 and the characters of the literal of
\* lines 126/132, as named characters
QING == "QING"
YUN == "YUN"
YU == "YU"
XUE == "XUE"
FENG == "FENG"
WEI == "WEI"
ZHI == "ZHI"
DEGREE == "DEGREE"

UpperCase ==
    <<"A", "B", "C", "D", "E", "F", "G", "H", "I", "J", "K", "L", "M",
      "N", "O", "P", "Q", "R", "S", "T", "U", "V", "W", "X", "Y", "Z">>
LowerCase ==
    <<"a", "b", "c", "d", "e", "f", "g", "h", "i", "j", "k", "l", "m",
      "n", "o", "p", "q", "r", "s", "t", "u", "v", "w", "x", "y", "z">>

\* String.prototype.toLowerCase, line 42: letters with a lower case are
\* mapped to it, every other character is kept
LowerChar(c) ==
    IF \E i \in 1..26 : UpperCase[i] = c
    THEN LowerCase[CHOOSE i \in 1..26 : UpperCase[i] = c]
    ELSE c
toLowerCase(t) == [i \in 1..Len(t) |-> LowerChar(t[i])]

\* String.prototype.includes
includes(t, kw) ==
    \E i \in 1..(Len(t) - Len(kw) + 1) : SubSeq(t, i, i + Len(kw) - 1) = kw

KwSunny == <<"s", "u", "n", "n", "y">>
KwCloud == <<"c", "l", "o", "u", "d">>
KwRain == <<"r", "a", "i", "n">>
KwSnow == <<"s", "n", "o", "w">>
KwWind == <<"w", "i", "n", "d">>

\* fault: the rain test of line 47 comes before the cloud test of line 45
getWeatherIcon_RainBeforeCloud(weather) ==
    LET weatherLower == toLowerCase(weather)
    IN  IF includes(weatherLower, <<QING>>) \/ includes(weatherLower, KwSunny)
        THEN "Sun"
        ELSE IF includes(weatherLower, <<YU>>) \/ includes(weatherLower, KwRain)
        THEN "CloudRain"
        ELSE IF includes(weatherLower, <<YUN>>) \/ includes(weatherLower, KwCloud)
        THEN "Cloud"
        ELSE IF includes(weatherLower, <<XUE>>) \/ includes(weatherLower, KwSnow)
        THEN "CloudSnow"
        ELSE IF includes(weatherLower, <<FENG>>) \/ includes(weatherLower, KwWind)
        THEN "Wind"
        ELSE "Sun"

\* lines 40-56: the lucide-react component that is returned
getWeatherIcon(weather) ==
    LET weatherLower == toLowerCase(weather)
    IN  IF includes(weatherLower, <<QING>>) \/ includes(weatherLower, KwSunny)
        THEN "Sun"
        ELSE IF includes(weatherLower, <<YUN>>) \/ includes(weatherLower, KwCloud)
        THEN "Cloud"
        ELSE IF includes(weatherLower, <<YU>>) \/ includes(weatherLower, KwRain)
        THEN "CloudRain"
        ELSE IF includes(weatherLower, <<XUE>>) \/ includes(weatherLower, KwSnow)
        THEN "CloudSnow"
        ELSE IF includes(weatherLower, <<FENG>>) \/ includes(weatherLower, KwWind)
        THEN "Wind"
        ELSE "Sun"

\* a JavaScript value that is a number or a string: [num |-> n] or [str |-> text]
Num(n) == [num |-> n]
Str(t) == [str |-> t]

\* the placeholders of lines 126 and 131-134
Dashes == <<"-", "-">>
UnknownWeather == <<WEI, ZHI>>

\* fault: || instead of ?? at line 131, so that 0 becomes the placeholder
Temperature_FalsyIsMissing(weatherInfo) ==
    IF Has(weatherInfo, "temperature") /\ weatherInfo.temperature # 0
    THEN Num(weatherInfo.temperature) ELSE Str(Dashes)

\* line 131: weatherInfo.temperature ?? '--'
Temperature(weatherInfo) ==
    IF Has(weatherInfo, "temperature") THEN Num(weatherInfo.temperature) ELSE Str(Dashes)

\* line 132: weatherInfo.weather ?? placeholder
Weather(weatherInfo) ==
    IF Has(weatherInfo, "weather") THEN weatherInfo.weather ELSE UnknownWeather

\* the object without keys, {} of line 129
EmptyObject == [k \in {} |-> <<>>]

\* lines 124-136 (humidity and airQuality are computed but never rendered)
getCurrentWeather(w) ==
    IF w = Null \/ ~Has(w, "data")
    THEN [temperature |-> Str(Dashes), weather |-> UnknownWeather]
    ELSE LET weatherInfo == IF Has(w.data, "weatherData") THEN w.data.weatherData
                            ELSE EmptyObject
         IN  [temperature |-> Temperature(weatherInfo), weather |-> Weather(weatherInfo)]

DigitChars == <<"0", "1", "2", "3", "4", "5", "6", "7", "8", "9">>

\* the decimal digits of a natural number
RECURSIVE Digits(_)
Digits(n) ==
    IF n < 10 THEN <<DigitChars[n + 1]>>
    ELSE Digits(n \div 10) \o <<DigitChars[(n % 10) + 1]>>

\* the text React renders for a JSX child that is a number or a string
ChildText(v) ==
    IF Has(v, "num")
    THEN IF v.num < 0 THEN <<"-">> \o Digits(0 - v.num) ELSE Digits(v.num)
    ELSE v.str

\* the children of the success pill, lines 183-189
SuccessPill(w) ==
    LET currentWeather == getCurrentWeather(w)
    IN  [icon |-> getWeatherIcon(currentWeather.weather),
         temperature |-> ChildText(currentWeather.temperature) \o <<DEGREE, "C">>,
         weather |-> currentWeather.weather]

\* what the pill on screen shows besides the tooltip
ViewDetails ==
    IF View.pill = "success"
    THEN SuccessPill(weatherData)
    ELSE [icon |-> IF View.pill = "none" THEN "none" ELSE "Cloud",
          temperature |-> <<>>, weather |-> <<>>]

-----------------------------------------------------------------------------
(* Initial state: the component instance before its first render; the     *)
(* useState defaults of lines 34-37                                        *)

Init ==
    /\ phase = "new"
    /\ config = NoConfig
    /\ weatherData = Null
    /\ loading = FALSE
    /\ error = Null
    /\ isHovering = FALSE
    /\ timers = {}
    /\ interval = NoCleanup
    /\ inflight = 0
    /\ pointerOver = FALSE
    /\ unhandled = FALSE
    /\ event = "init"
    /\ fetchStarted = FALSE
    /\ lastOutcome = Null
    /\ lastStart = [by |-> "none", fromError |-> FALSE]

-----------------------------------------------------------------------------
(* Actions *)

\* fault: the cleanup also turns the state setters off
SettersLive_UntilCleanup == phase = "mounted" /\ interval # NoCleanup

\* the state setters of lines 34-37 act while the component is mounted;
\* neither the cleanup of line 97 nor a disabled config turns them off
SettersLive == phase = "mounted"

\* fault: setError(null) of line 66 is missing
FetchWeatherStart_KeepsError(live, by) ==
    /\ loading' = IF live THEN TRUE ELSE loading
    /\ error' = error
    /\ inflight' = inflight + 1
    /\ fetchStarted' = TRUE
    /\ lastStart' = [by |-> by, fromError |-> error # Null]

\* the synchronous part of fetchWeather, lines 65-70; the state setters of
\* an unmounted component do nothing
FetchWeatherStart(live, by) ==
    /\ loading' = IF live THEN TRUE ELSE loading
    /\ error' = IF live THEN Null ELSE error
    /\ inflight' = inflight + 1
    /\ fetchStarted' = TRUE
    /\ lastStart' = [by |-> by, fromError |-> error # Null]

\* fault: the effect returns no cleanup
AfterCleanup_Skipped == timers

\* the cleanup of the previous effect run, line 97, if it returned one
AfterCleanup == IF interval = NoCleanup THEN timers ELSE clearInterval(timers, interval)

\* one run of the effect for config c, after the previous cleanup
RunEffect(c) ==
    LET eff == useEffectBody(c)
        h == NewHandle(AfterCleanup)
    IN  /\ IF eff.fetch
           THEN inflight < MaxInflight /\ FetchWeatherStart(TRUE, "effect")
           ELSE /\ UNCHANGED <<loading, error, inflight, lastStart>>
                /\ fetchStarted' = FALSE
        /\ IF eff.timer
           THEN timers' = AfterCleanup \cup {h} /\ interval' = h
           ELSE timers' = AfterCleanup /\ interval' = NoCleanup

\* first render and first effect run with the config the host passes
Mount(c) ==
    /\ phase = "new"
    /\ phase' = "mounted"
    /\ config' = c
    /\ RunEffect(c)
    /\ event' = "mount"
    /\ UNCHANGED <<weatherData, isHovering, pointerOver, unhandled, lastOutcome>>

\* the host passes another config value: re-render, cleanup, effect ([config], line 98)
SetConfig(c) ==
    /\ phase = "mounted"
    /\ c # config
    /\ config' = c
    /\ RunEffect(c)
    /\ event' = "config"
    /\ UNCHANGED <<phase, weatherData, isHovering, pointerOver, unhandled, lastOutcome>>

\* the component is removed: the pending cleanup runs (line 97)
Unmount ==
    /\ phase = "mounted"
    /\ phase' = "unmounted"
    /\ timers' = AfterCleanup
    /\ interval' = NoCleanup
    /\ event' = "unmount"
    /\ fetchStarted' = FALSE
    /\ UNCHANGED <<config, weatherData, loading, error, isHovering, inflight,
                   pointerOver, unhandled, lastOutcome, lastStart>>

\* an active interval timer fires and calls fetchWeather (line 95)
Tick(t) ==
    /\ t \in timers
    /\ inflight < MaxInflight
    /\ FetchWeatherStart(SettersLive, "tick")
    /\ event' = "tick"
    /\ UNCHANGED <<phase, config, weatherData, isHovering, timers, interval,
                   pointerOver, unhandled, lastOutcome>>

TimerTick == \E t \in timers : Tick(t)

\* an awaited response settles with outcome o: the rest of fetchWeather, lines 70-89
Resolve(o) ==
    /\ inflight > 0
    /\ inflight' = inflight - 1
    /\ IF SettersLive
       THEN /\ weatherData' = SettledData(o, weatherData)
            /\ error' = SettledError(o, error)
            /\ loading' = SettledLoading(o, loading)
       ELSE UNCHANGED <<weatherData, error, loading>>
    /\ unhandled' = (unhandled \/ (Throws(o) /\ ~Catches(o)))
    /\ lastOutcome' = o
    /\ event' = "resolve"
    /\ fetchStarted' = FALSE
    /\ UNCHANGED <<phase, config, isHovering, timers, interval, pointerOver,
                   lastStart>>

\* the pointer enters the pill that carries the handlers (line 180)
MouseEnter ==
    /\ HasHoverHandlers(View.pill)
    /\ ~pointerOver
    /\ pointerOver' = TRUE
    /\ isHovering' = onMouseEnter
    /\ event' = "enter"
    /\ fetchStarted' = FALSE
    /\ UNCHANGED <<phase, config, weatherData, loading, error, timers, interval,
                   inflight, unhandled, lastOutcome, lastStart>>

\* the pointer leaves the pill that carries the handlers (line 181)
MouseLeave ==
    /\ HasHoverHandlers(View.pill)
    /\ pointerOver
    /\ pointerOver' = FALSE
    /\ isHovering' = onMouseLeave
    /\ event' = "leave"
    /\ fetchStarted' = FALSE
    /\ UNCHANGED <<phase, config, weatherData, loading, error, timers, interval,
                   inflight, unhandled, lastOutcome, lastStart>>

\* the pointer crosses the box of a pill without handlers (lines 107, 116)
PointerMove ==
    /\ View.pill \in {"loading", "unavailable"}
    /\ pointerOver' = ~pointerOver
    /\ event' = "pointer"
    /\ fetchStarted' = FALSE
    /\ UNCHANGED <<phase, config, weatherData, loading, error, isHovering, timers,
                   interval, inflight, unhandled, lastOutcome, lastStart>>

\* some awaited response settles
ResolveSome == \E o \in Outcomes : Resolve(o)

Next ==
    \/ \E c \in Configs : Mount(c)
    \/ \E c \in Configs : SetConfig(c)
    \/ Unmount
    \/ TimerTick
    \/ \E o \in Outcomes : Resolve(o)
    \/ MouseEnter
    \/ MouseLeave
    \/ PointerMove

Spec == Init /\ [][Next]_vars

\* every issued fetch eventually settles: the endpoint or the network stack
\* answers or fails each request
FairSpec == Spec /\ WF_vars(ResolveSome)

TypeOK ==
    /\ phase \in {"new", "mounted", "unmounted"}
    /\ config \in Configs
    /\ loading \in BOOLEAN
    /\ isHovering \in BOOLEAN
    /\ inflight \in 0..MaxInflight

-----------------------------------------------------------------------------
(* Vocabulary of the properties *)

IsEnabled(c) == c # NoConfig /\ c.enabled
IsDisabled(c) == ~IsEnabled(c)
Mounted == phase = "mounted"

\* the failure classes of a fetch, by what the endpoint did
TransportFailure(o) == o.kind = "reject"
HttpFailure(o) == o.kind = "response" /\ o.status = 500
PayloadFailure(o) ==
    /\ o.kind = "response"
    /\ o.status = 200
    /\ o.body \in {BodyFailMessage, BodyFailEmpty}
SuccessResponse(o) ==
    /\ o.kind = "response"
    /\ o.status = 200
    /\ o.body \in {BodyFull, BodyCity, BodyNoData}

-----------------------------------------------------------------------------
\* C1: whenever the configuration is absent or has enabled=false, the last
\* step issued no fetch, no interval timer is active, and nothing is rendered
\* (no pill, no tooltip), whatever loading, error, weatherData and isHovering
\* are.
C1_DisabledIsInert ==
    IsDisabled(config) =>
        /\ ~fetchStarted
        /\ timers = {}
        /\ View = [pill |-> "none", tooltip |-> <<>>]

\* a mounted, disabled widget whose state would otherwise show a pill
C1_Witness ==
    /\ Mounted
    /\ IsDisabled(config)
    /\ loading
    /\ weatherData # Null
    /\ isHovering
    /\ event = "config"

\* C2: once the component is unmounted, no step issues a fetch.
C2_NoFetchAfterUnmount == [][phase = "unmounted" => ~fetchStarted']_vars

\* the widget was unmounted while enabled, so its timer had to be cancelled
C2_Witness ==
    /\ phase = "unmounted"
    /\ IsEnabled(config)
    /\ event = "unmount"

\* C3: at most one interval timer is active, and none is active when the
\* component is not mounted or its configuration is disabled or absent.
C3_NoTimerLeak ==
    /\ Cardinality(timers) <= 1
    /\ (~Mounted \/ IsDisabled(config)) => timers = {}

\* a config change of a mounted widget that left exactly one timer active
C3_Witness ==
    /\ Mounted
    /\ event = "config"
    /\ IsEnabled(config)
    /\ Cardinality(timers) = 1
    /\ inflight = 2

\* C4 (as stated): a step issues a fetch exactly when it is a timer tick or
\* the step in which the widget becomes enabled (it was not mounted with an
\* enabled configuration before the step and is after it).
C4_FetchOnlyOnEnableOrTick ==
    [][fetchStarted' <=>
          \/ event' = "tick"
          \/ /\ event' \in {"mount", "config"}
             /\ IsEnabled(config')
             /\ ~(Mounted /\ IsEnabled(config))]_vars

\* C4 (amended): a step issues a fetch exactly when it is a timer tick or an
\* effect run (mount or configuration change) that sees an enabled
\* configuration, a change from one enabled config object to another
\* included; such a step issues exactly one fetch, and no other step (a
\* response, a failure, a pointer event, an unmount) issues any.
C4_FetchOnEffectRunOrTick ==
    [][/\ fetchStarted' <=>
             \/ event' = "tick"
             \/ event' \in {"mount", "config"} /\ IsEnabled(config')
       /\ fetchStarted' => inflight' = inflight + 1
       /\ ~fetchStarted' => inflight' <= inflight]_vars

\* a configuration change issued a fetch while another one was in flight
C4_Witness ==
    /\ Mounted
    /\ event = "config"
    /\ fetchStarted
    /\ inflight = 2
    /\ lastOutcome # Null

\* C5: a fetch that ends in a transport failure, a non-OK HTTP status or a
\* payload whose status is not "success" leaves a mounted widget with a
\* non-empty error message and loading = false, so that an enabled widget
\* shows the "weather unavailable" pill; and no rejection escapes fetchWeather.
C5_FailuresBecomeErrorState ==
    [][(/\ event' = "resolve"
        /\ Mounted
        /\ \/ TransportFailure(lastOutcome')
           \/ HttpFailure(lastOutcome')
           \/ PayloadFailure(lastOutcome'))
       => /\ error' # Null
          /\ error'.msg # ""
          /\ ~loading'
          /\ ~unhandled'
          /\ IsEnabled(config') =>
                /\ View'.pill = "unavailable"
                /\ ViewText' = UnavailableText]_vars

\* an HTTP 500 response settled on a mounted, enabled widget that held data
C5_Witness ==
    /\ Mounted
    /\ IsEnabled(config)
    /\ event = "resolve"
    /\ HttpFailure(lastOutcome)
    /\ weatherData # Null
    /\ View.pill = "unavailable"

\* C6: a mounted, enabled widget shows exactly one pill: the loading pill
\* whenever loading; otherwise the unavailable pill whenever error is non-null
\* or weatherData is null; the success pill otherwise.
C6_RenderPrecedence ==
    (Mounted /\ IsEnabled(config)) =>
        /\ View.pill \in {"loading", "unavailable", "success"}
        /\ loading => View.pill = "loading"
        /\ (~loading /\ (error # Null \/ weatherData = Null)) => View.pill = "unavailable"
        /\ (~loading /\ error = Null /\ weatherData # Null) => View.pill = "success"

\* the error takes precedence over a stored snapshot
C6_Witness ==
    /\ Mounted
    /\ IsEnabled(config)
    /\ ~loading
    /\ error # Null
    /\ weatherData # Null
    /\ View.pill = "unavailable"

\* C7: once no fetch is in flight, a mounted, enabled widget shows what the
\* response that settled last determines: the success pill with that payload
\* stored if it was a success, the unavailable pill if it was a failure.
C7_LastResponseWins ==
    (Mounted /\ IsEnabled(config) /\ inflight = 0 /\ lastOutcome # Null) =>
        IF SuccessResponse(lastOutcome)
        THEN View.pill = "success" /\ weatherData = lastOutcome.body
        ELSE View.pill = "unavailable"

\* C8 (as stated): a success stores exactly the received payload, and a fetch
\* that ends in error leaves no stored snapshot.
C8_ReplacedOrDiscarded ==
    [][(event' = "resolve" /\ Mounted) =>
          IF SuccessResponse(lastOutcome')
          THEN weatherData' = lastOutcome'.body
          ELSE weatherData' = Null]_vars

\* C8 (amended): a success stores exactly the received payload (no field of
\* the previous snapshot survives), and a fetch that ends in error stores
\* nothing: the previously stored snapshot is left unchanged.
C8_ReplacedOrKept ==
    [][(event' = "resolve" /\ Mounted) =>
          IF SuccessResponse(lastOutcome')
          THEN weatherData' = lastOutcome'.body
          ELSE weatherData' = weatherData]_vars

\* a payload without data replaced nothing less than the whole snapshot
C8_Witness ==
    /\ Mounted
    /\ event = "resolve"
    /\ SuccessResponse(lastOutcome)
    /\ weatherData = BodyNoData
    /\ inflight = 0
    /\ isHovering

\* C9: in the success state the tooltip is rendered exactly when isHovering,
\* and it contains the resolved location of the stored payload; no other
\* state renders it; a pointer-enter sets isHovering and a pointer-leave
\* clears it.
C9_HoverTooltip ==
    /\ [](/\ View.pill = "success" => (View.tooltip # <<>> <=> isHovering)
          /\ View.pill # "success" => View.tooltip = <<>>
          /\ (View.tooltip # <<>> /\ weatherData = BodyFull)
                => View.tooltip = << <<"A", MIDDOT, "B">> >>
          /\ (View.tooltip # <<>> /\ weatherData = BodyCity)
                => View.tooltip = << <<"Y", MIDDOT, "X">> >>)
    /\ [][/\ event' = "enter" => (isHovering' /\ View'.tooltip # <<>>)
          /\ event' = "leave" => (~isHovering' /\ View'.tooltip = <<>>)]_vars

\* the pointer left the success pill after the tooltip had been shown
C9_Witness ==
    /\ View.pill = "success"
    /\ event = "leave"
    /\ ~isHovering
    /\ weatherData = BodyFull

-----------------------------------------------------------------------------
(* Location resolution over a family of payloads: the widget shows a      *)
(* successfully fetched payload and the pointer enters and leaves the     *)
(* pill, which renders getCityInfo() in the tooltip (line 195)            *)

\* an optional field: <<>> when absent, <<v>> when present with value v;
\* a present text may be the empty text
Optional(values) == {<<>>, << <<>> >>} \cup {<<v>> : v \in values}

\* the JSON object that has the present fields of f
MkObject(f) == [k \in {j \in DOMAIN f : f[j] # <<>>} |-> f[k][1]]

LocationData ==
    {MkObject(f) : f \in
        [weatherData : {<<>>} \cup
                       {<<MkObject([region |-> r])>> :
                           r \in Optional({<<"A">>, <<"A", BAR, "C">>,
                                            <<"A", BAR, "C", FWBAR, "D">>})},
         region : Optional({<<"B">>, <<"Bei", "Jing", BAR, "Chao", "Yang">>}),
         location : Optional({<<"L", FWBAR, "M">>}),
         province : Optional({<<"Y">>}),
         city : Optional({<<"X">>})]}

LocationBodies ==
    {[status |-> "success"]}
      \cup {[status |-> "success", data |-> d] : d \in LocationData}

\* weather descriptions: up to two fragments, written one after the other
Fragments ==
    {<<QING>>, <<YUN>>, <<YU>>, <<XUE>>, <<FENG>>, <<"DUO">>, <<"ZHUAN">>,
     <<"S", "u", "n", "n", "y">>,
     <<"C", "L", "O", "U", "D", "Y">>,
     <<"R", "a", "i", "n">>,
     <<"S", "N", "O", "W">>,
     <<"w", "i", "n", "d", "y">>,
     <<"C", "l", "e", "a", "r">>,
     <<"s", "u", "n">>,
     <<"f", "o", "g">>}

Descriptions ==
    {<<>>} \cup Fragments \cup {a \o b : a \in Fragments, b \in Fragments}

Temperatures == {0 - 5, 0, 7, 20, 105}

\* payloads that differ in the displayed fields of data.weatherData
WeatherData ==
    {MkObject(f) : f \in
        [temperature : {<<>>} \cup {<<t>> : t \in Temperatures},
         weather : {<<>>} \cup {<<w>> : w \in Fragments}]}
      \cup {[temperature |-> 20, weather |-> w] : w \in Descriptions}

WeatherBodies ==
    {[status |-> "success", data |-> [weatherData |-> wd]] : wd \in WeatherData}

\* the payloads the widget is shown with
RenderBodies == LocationBodies \cup WeatherBodies

InitHover ==
    /\ phase = "mounted"
    /\ config = [id |-> 1, enabled |-> TRUE]
    /\ weatherData \in RenderBodies
    /\ loading = FALSE
    /\ error = Null
    /\ isHovering = FALSE
    /\ timers = {1}
    /\ interval = 1
    /\ inflight = 0
    /\ pointerOver = FALSE
    /\ unhandled = FALSE
    /\ event = "resolve"
    /\ fetchStarted = FALSE
    /\ lastOutcome = [kind |-> "response", status |-> 200, body |-> weatherData]
    /\ lastStart = [by |-> "effect", fromError |-> FALSE]

NextHover == MouseEnter \/ MouseLeave

SpecHover == InitHover /\ [][NextHover]_vars

\* the text of an optional field, empty when the field is absent
FieldText(o, k) == IF Has(o, k) THEN o[k] ELSE <<>>

\* the four candidates of the documented order
Candidates(data) ==
    LET province == FieldText(data, "province")
        city == FieldText(data, "city")
    IN  << IF Has(data, "weatherData") THEN FieldText(data.weatherData, "region") ELSE <<>>,
           FieldText(data, "region"),
           FieldText(data, "location"),
           IF province # <<>> /\ city # <<>> THEN province \o <<MIDDOT>> \o city
           ELSE province \o city >>

\* the first non-empty candidate, bars normalised; <<>> when there is none
FirstCandidate(data) ==
    LET cs == Candidates(data)
        found == {i \in 1..4 : cs[i] # <<>>}
    IN  IF found = {} THEN <<>>
        ELSE LET first == CHOOSE i \in found : \A j \in found : i <= j
             IN  [n \in 1..Len(cs[first]) |->
                     IF cs[first][n] \in {BAR, FWBAR} THEN MIDDOT ELSE cs[first][n]]

Shown == View.tooltip # <<>>

\* C10 (as stated): the tooltip shows the first non-empty candidate in the
\* order weatherData.region, region, location, province and city joined by a
\* middle dot, and the "unknown location" placeholder when none resolves.
C10_LocationOrder ==
    Shown =>
        LET data == IF Has(weatherData, "data") THEN weatherData.data ELSE [x \in {} |-> <<>>]
        IN  View.tooltip[1] =
                IF FirstCandidate(data) # <<>> THEN FirstCandidate(data)
                ELSE UnknownLocation

\* C10 (amended): as stated while the payload has a data object; a payload
\* without a data object resolves to the different placeholder "unknown city".
\* In particular weatherData.region = "A" with region = "B" resolves to "A" and
\* only city = "X", province = "Y" resolves to Y, middle dot, X.
C10_LocationOrderWithData ==
    Shown =>
        /\ View.tooltip[1] =
              IF ~Has(weatherData, "data") THEN UnknownCity
              ELSE IF FirstCandidate(weatherData.data) # <<>>
              THEN FirstCandidate(weatherData.data)
              ELSE UnknownLocation
        /\ weatherData = [status |-> "success",
                          data |-> [weatherData |-> [region |-> <<"A">>],
                                    region |-> <<"B">>]]
              => View.tooltip[1] = <<"A">>
        /\ weatherData = [status |-> "success",
                          data |-> [city |-> <<"X">>, province |-> <<"Y">>]]
              => View.tooltip[1] = <<"Y", MIDDOT, "X">>

\* weatherData.region wins over every later candidate
C10_Witness ==
    /\ Shown
    /\ Has(weatherData, "data")
    /\ DOMAIN weatherData.data = {"weatherData", "region", "location", "province", "city"}
    /\ weatherData.data.region = <<"B">>
    /\ weatherData.data.weatherData = [region |-> <<"A">>]
    /\ View.tooltip = << <<"A">> >>

-----------------------------------------------------------------------------
\* two characters are the same letter up to case
SameLetter(a, b) ==
    \/ a = b
    \/ \E i \in 1..26 : {a, b} = {UpperCase[i], LowerCase[i]}

\* keyword kw occurs in text t, whatever the case of the letters of t
Occurs(kw, t) ==
    \E i \in 1..Len(t) :
        /\ i + Len(kw) - 1 <= Len(t)
        /\ \A j \in 1..Len(kw) : SameLetter(t[i + j - 1], kw[j])

\* the keyword sets of the five categories, in priority order
Categories ==
    << [icon |-> "Sun", keywords |-> {<<QING>>, KwSunny}],
       [icon |-> "Cloud", keywords |-> {<<YUN>>, KwCloud}],
       [icon |-> "CloudRain", keywords |-> {<<YU>>, KwRain}],
       [icon |-> "CloudSnow", keywords |-> {<<XUE>>, KwSnow}],
       [icon |-> "Wind", keywords |-> {<<FENG>>, KwWind}] >>

Matching(t) == {i \in 1..5 : \E kw \in Categories[i].keywords : Occurs(kw, t)}

\* C11: the icon of the success pill is that of the first category, in the
\* order clear/sunny, cloudy, rain, snow, wind, one of whose keywords occurs
\* in the displayed description as a substring, whatever the case of its
\* letters and whatever keywords of later categories also occur; a description
\* in which no keyword occurs gets the clear/sunny icon.
C11_IconPriority ==
    View.pill = "success" =>
        LET m == Matching(ViewDetails.weather)
        IN  ViewDetails.icon =
                IF m = {} THEN "Sun"
                ELSE Categories[CHOOSE i \in m : \A j \in m : i <= j].icon

\* an upper-case rain keyword precedes a mixed-case cloud keyword: cloudy wins
C11_Witness ==
    /\ View.pill = "success"
    /\ ViewDetails.weather = <<"R", "a", "i", "n">> \o <<"C", "L", "O", "U", "D", "Y">>
    /\ ViewDetails.icon = "Cloud"
    /\ event = "enter"

-----------------------------------------------------------------------------
\* the number a decimal text denotes
RECURSIVE ParseNatural(_)
ParseNatural(t) ==
    IF Len(t) = 0 THEN 0
    ELSE 10 * ParseNatural(SubSeq(t, 1, Len(t) - 1))
           + (CHOOSE d \in 0..9 : DigitChars[d + 1] = t[Len(t)])
ParseInteger(t) ==
    IF Len(t) > 0 /\ t[1] = "-" THEN 0 - ParseNatural(Tail(t)) ELSE ParseNatural(t)

\* an optional minus sign followed by at least one digit
IsDecimal(t) ==
    LET body == IF Len(t) > 0 /\ t[1] = "-" THEN Tail(t) ELSE t
    IN  /\ Len(body) > 0
        /\ \A i \in 1..Len(body) : \E d \in 1..10 : DigitChars[d] = body[i]

\* data.weatherData of the stored payload, the empty object when it is missing
PayloadWeatherData ==
    IF Has(weatherData, "data") /\ Has(weatherData.data, "weatherData")
    THEN weatherData.data.weatherData
    ELSE EmptyObject

\* C12: in the success state the temperature and the description are resolved
\* independently from data.weatherData: a present temperature is rendered as
\* its decimal text followed by the degree sign and C, a missing one (or a
\* missing weatherData or data) as the "--" placeholder in front of the same
\* suffix; a present description is rendered as it is, a missing one as the
\* "unknown" placeholder; the render never fails.
C12_DisplayedFields ==
    View.pill = "success" =>
        LET shown == ViewDetails.temperature
            n == Len(shown)
        IN  /\ n > 2
            /\ SubSeq(shown, n - 1, n) = <<DEGREE, "C">>
            /\ IF Has(PayloadWeatherData, "temperature")
               THEN /\ IsDecimal(SubSeq(shown, 1, n - 2))
                    /\ ParseInteger(SubSeq(shown, 1, n - 2)) = PayloadWeatherData.temperature
               ELSE SubSeq(shown, 1, n - 2) = <<"-", "-">>
            /\ ViewDetails.weather =
                  IF Has(PayloadWeatherData, "weather") THEN PayloadWeatherData.weather
                  ELSE <<WEI, ZHI>>
            /\ ViewDetails.icon \in {"Sun", "Cloud", "CloudRain", "CloudSnow", "Wind"}

\* a temperature of 0 is shown as such while the missing description is not
C12_Witness ==
    /\ View.pill = "success"
    /\ PayloadWeatherData = [temperature |-> 0]
    /\ ViewDetails.temperature = <<"0", DEGREE, "C">>
    /\ ViewDetails.weather = <<WEI, ZHI>>
    /\ event = "enter"

-----------------------------------------------------------------------------
IsBar(c) == c \in {BAR, FWBAR}

\* the candidate the resolution picks, before normalisation; <<>> when none
PickedCandidate ==
    IF ~Has(weatherData, "data") THEN <<>>
    ELSE LET cs == Candidates(weatherData.data)
             found == {i \in 1..4 : cs[i] # <<>>}
         IN  IF found = {} THEN <<>>
             ELSE cs[CHOOSE i \in found : \A j \in found : i <= j]

\* C13: the resolved location is the picked candidate with every vertical
\* bar (ASCII or fullwidth) replaced by a middle dot and every other
\* character kept, so it contains no vertical bar and normalising it again
\* changes nothing; in particular Bei Jing | Chao Yang resolves to
\* Bei Jing, middle dot, Chao Yang.
C13_BarsNormalised ==
    Shown =>
        LET resolved == View.tooltip[1]
            picked == PickedCandidate
        IN  /\ \A i \in 1..Len(resolved) : ~IsBar(resolved[i])
            /\ [i \in 1..Len(resolved) |->
                   IF IsBar(resolved[i]) THEN MIDDOT ELSE resolved[i]] = resolved
            /\ picked # <<>> =>
                  /\ Len(resolved) = Len(picked)
                  /\ \A i \in 1..Len(picked) :
                        resolved[i] = IF IsBar(picked[i]) THEN MIDDOT ELSE picked[i]
            /\ picked = <<"Bei", "Jing", BAR, "Chao", "Yang">>
                  => resolved = <<"Bei", "Jing", MIDDOT, "Chao", "Yang">>

\* a location with an ASCII and a fullwidth bar is shown with two middle dots
C13_Witness ==
    /\ Shown
    /\ PickedCandidate = <<"A", BAR, "C", FWBAR, "D">>
    /\ View.tooltip[1] = <<"A", MIDDOT, "C", MIDDOT, "D">>

-----------------------------------------------------------------------------
\* the only fetch in flight was issued by a timer tick that found the widget
\* in the error state, and no response has settled since
RecoveryFetchPending ==
    /\ Mounted
    /\ lastStart = [by |-> "tick", fromError |-> TRUE]
    /\ inflight = 1
    /\ loading

\* C14: when a periodic fetch that was issued in the error state, with no
\* other fetch in flight, resolves with a success payload, then error is
\* null, loading is false, the payload is stored and an enabled widget
\* renders the success pill.
C14_RecoveryByNextFetch ==
    [][(RecoveryFetchPending /\ event' = "resolve" /\ SuccessResponse(lastOutcome'))
       => /\ error' = Null
          /\ ~loading'
          /\ weatherData' = lastOutcome'.body
          /\ IsEnabled(config') => View'.pill = "success"]_vars

\* the widget shows the payload of the tick-issued fetch that followed an error
C14_Witness ==
    /\ Mounted
    /\ IsEnabled(config)
    /\ event = "resolve"
    /\ lastStart = [by |-> "tick", fromError |-> TRUE]
    /\ inflight = 0
    /\ lastOutcome.kind = "response"
    /\ lastOutcome.body = BodyCity
    /\ weatherData = BodyCity
    /\ error = Null
    /\ View.pill = "success"

-----------------------------------------------------------------------------
\* C15: a configuration change or an unmount (which cancel the timer) aborts
\* no fetch in flight; every fetch in flight can still settle; and whenever a
\* response settles on a mounted component, also after the configuration was
\* changed or disabled, it applies its update: loading becomes false, a
\* success payload is stored, a failure sets error.
C15_InFlightSurvivesCancel ==
    /\ [](inflight > 0 => ENABLED ResolveSome)
    /\ [][/\ event' \in {"config", "unmount"} => inflight' >= inflight
          /\ (event' = "resolve" /\ Mounted) =>
                /\ ~loading'
                /\ SuccessResponse(lastOutcome') => weatherData' = lastOutcome'.body
                /\ ~SuccessResponse(lastOutcome') => error' # Null]_vars

\* a fetch issued before the widget was disabled settled afterwards and its
\* payload was stored
C15_Witness ==
    /\ Mounted
    /\ IsDisabled(config)
    /\ event = "resolve"
    /\ SuccessResponse(lastOutcome)
    /\ weatherData = lastOutcome.body
    /\ ~loading
    /\ error = Null
    /\ inflight = 0

-----------------------------------------------------------------------------
\* C16: every response that settles on a mounted widget sets loading to
\* false, so a mounted widget with no fetch in flight is not loading; and,
\* every issued fetch eventually settling, each fetch start of a mounted
\* widget is eventually followed by a state in which loading is false (or the
\* widget has been unmounted).
C16_LoadingEnds ==
    /\ [](Mounted /\ inflight = 0 => ~loading)
    /\ [][(event' = "resolve" /\ Mounted) => ~loading']_vars
    /\ (Mounted /\ fetchStarted /\ loading) ~> (~loading \/ ~Mounted)

\* a failed fetch left a mounted widget idle and not loading
C16_Witness ==
    /\ Mounted
    /\ event = "resolve"
    /\ lastOutcome = [kind |-> "reject"]
    /\ inflight = 0
    /\ ~loading
    /\ lastStart.by = "tick"

-----------------------------------------------------------------------------
\* C17: whatever the interleaving of pointer events with fetch events, the
\* tooltip is rendered only while the pointer is over the pill.
C17_TooltipOnlyUnderPointer == View.tooltip # <<>> => pointerOver

-----------------------------------------------------------------------------
\* C18: a configuration change to an enabled configuration, from whatever
\* configuration, cancels the previous timer if there was one, issues exactly
\* one fetch in the same step (loading becomes true, error null, weatherData
\* is left as it was) and leaves exactly one, new timer active; a change to a
\* disabled or absent configuration cancels the timer, starts none and issues
\* no fetch.
C18_ConfigChangeRestarts ==
    [][event' = "config" =>
          /\ interval # NoCleanup => interval \notin timers'
          /\ IF IsEnabled(config')
             THEN /\ fetchStarted'
                  /\ inflight' = inflight + 1
                  /\ loading'
                  /\ error' = Null
                  /\ weatherData' = weatherData
                  /\ Cardinality(timers') = 1
                  /\ timers' = {interval'}
                  /\ interval' # interval
             ELSE /\ ~fetchStarted'
                  /\ inflight' = inflight
                  /\ timers' = {}
                  /\ interval' = NoCleanup]_vars

\* an enabled configuration replaced an enabled one: the first timer is gone,
\* a second one runs, and a fetch was issued on top of the pending one
C18_Witness ==
    /\ Mounted
    /\ event = "config"
    /\ IsEnabled(config)
    /\ timers = {2}
    /\ interval = 2
    /\ fetchStarted
    /\ inflight = 2
    /\ weatherData # Null

====
